---- MODULE Spec2Model ----
(***************************************************************************)
(* vaultenv: a line-oriented template filter that replaces                 *)
(* {{ kv "<url>" }} expressions by secrets read from a vault, using a      *)
(* bearer token obtained from a chain of token providers (src/main.go).    *)
(*                                                                         *)
(* Strings are modelled as TLA+ strings or as sequences of string pieces;  *)
(* a Go error is the sequence of messages of its Unwrap chain, outermost   *)
(* first, and the nil error is the empty sequence.                         *)
(***************************************************************************)
EXTENDS Integers, Sequences, FiniteSets, TLC

VARIABLES
    providers,   \* tokenProviderChain.providers of the fetcher's tokenProvider
    chainRes,    \* SpecChain: what the last tokenProviderChain.Token call returned
    provRes,     \* SpecProviders: one provider, the answer it gets, what Token did
    status,      \* filter: "run", "done" (returned normally), "panic"
    pc,          \* filter: "scan", "exec" (inside Execute), "nl" (before out.Write)
    nread,       \* filter: lines returned by scanner.Scan so far
    line,        \* filter: the line being processed (scanner.Text, parsed)
    tree,        \* the shared template's parse tree (t.Tree), NoTree before any Parse
    cur,         \* Execute: the nodes of the executing tree not yet walked
    out,         \* the pieces written to out, in order
    token,       \* fetcher.token
    obs,         \* observation of the run: counters of calls and requests
    lastFetch    \* observation of the most recent fetch call of the current line

vars == <<providers, chainRes, provRes, status, pc, nread, line, tree, cur, out, token,
          obs, lastFetch>>

-----------------------------------------------------------------------------
(* Bounds of the model *)

MaxProviders == 2
MaxLines == 2

-----------------------------------------------------------------------------
(* Errors *)

Nil == <<>>

\* var errTokenProviderNotAvailable = errors.New("token provider not available")
errTokenProviderNotAvailable == <<"token provider not available">>

\* fmt.Errorf("<prefix>: %w", err): a new error whose Unwrap is err
Wrap(prefix, err) == <<prefix>> \o err

\* errors.Is(err, target) for targets made by errors.New: some error of the
\* Unwrap chain of err is target
Is(err, target) ==
    /\ target # Nil
    /\ \E i \in 1..Len(err) : SubSeq(err, i, Len(err)) = target

-----------------------------------------------------------------------------
(* HTTP responses the injected httpClient may give *)

Tokens == {"", "TOKEN"}

\* client.Do for an identity request: a transport error, a non-200 status, a
\* 200 whose body does not decode, or a 200 whose body decodes to
\* access_token t (t = "" when the field is absent)
IdResponses ==
    {[kind |-> "neterr"], [kind |-> "status"], [kind |-> "garbage"]}
        \cup {[kind |-> "ok", token |-> t] : t \in Tokens}

NoResponse == [kind |-> "neterr"]

\* fetchToken(client, req): one request, then the classification of the answer
fetchToken(resp) ==
    IF resp.kind = "neterr"
    THEN [token |-> "", err |-> <<"transport error">>, reqs |-> 1]
    ELSE IF resp.kind = "status"
    THEN [token |-> "", err |-> <<"500 Internal Server Error">>, reqs |-> 1]
    ELSE IF resp.kind = "garbage"
    THEN [token |-> "",
          err |-> Wrap("failed to decode token", <<"invalid character">>),
          reqs |-> 1]
    ELSE [token |-> resp.token, err |-> Nil, reqs |-> 1]

-----------------------------------------------------------------------------
(* Token providers *)

\* dummyTokenProvider{token, err}: returns its two fields
DummyErrs == {Nil, errTokenProviderNotAvailable, <<"error1">>, <<"error2">>}
DummyProviders ==
    {[kind |-> "dummy", token |-> t, err |-> e] :
        t \in {"", "token1", "token2"}, e \in DummyErrs}

dummyToken(p) == [token |-> p.token, err |-> p.err, reqs |-> 0]

\* The tenant of a clientCredentialTokenProvider: raw is the text and wf
\* whether the token URL made of it is accepted by http.NewRequest (url.Parse
\* rejects, for one, an invalid percent-escape)
Tenants == {[raw |-> "5a9c134c", wf |-> TRUE], [raw |-> "%zz", wf |-> FALSE]}
ClientIds == {"", "b3a0fa1e"}
ClientSecrets == {"", "7a724b98"}

\* The request clientCredentialTokenProvider.Token builds
clientCredentialRequest(p) ==
    [method |-> "GET",
     url |-> <<"https://login.microsoftonline.com/", p.tenant.raw, "/oauth2/token">>,
     header |-> <<"Content-Type", "application/x-www-form-urlencoded">>,
     body |-> [grant_type |-> "client_credentials",
               client_id |-> p.clientId,
               client_secret |-> p.clientSecret,
               resource |-> "https://vault.azure.net"]]

\* Mutant: an unconfigured provider asks the identity endpoint all the same.
clientCredentialNoIdTest(p, resp) ==
    IF ~p.tenant.wf
    THEN [token |-> "", err |-> <<"parse", "invalid URL escape">>, reqs |-> 0]
    ELSE fetchToken(resp)

\* clientCredentialTokenProvider.Token
clientCredentialToken(p, resp) ==
    IF p.clientId = ""
    THEN [token |-> "", err |-> errTokenProviderNotAvailable, reqs |-> 0]
    ELSE IF ~p.tenant.wf
    THEN [token |-> "", err |-> <<"parse", "invalid URL escape">>, reqs |-> 0]
    ELSE fetchToken(resp)

\* The request vmIdentityTokenProvider.Token builds
vmIdentityRequest ==
    [method |-> "GET",
     url |-> <<"http://169.254.169.254/metadata/identity/oauth2/token",
               "?api-version=2019-06-04&resource=https%3A%2F%2Fvault.azure.net">>,
     header |-> <<"Metadata", "true">>,
     body |-> [grant_type |-> "", client_id |-> "", client_secret |-> "",
               resource |-> ""]]

\* Mutant: an identity endpoint that cannot be reached counts as a provider
\* that is not available.
vmIdentityUnreachableNotAvailable(p, resp) ==
    IF resp.kind = "neterr"
    THEN [token |-> "", err |-> errTokenProviderNotAvailable, reqs |-> 1]
    ELSE fetchToken(resp)

\* vmIdentityTokenProvider.Token
vmIdentityToken(p, resp) == fetchToken(resp)

\* What running the Azure CLI helper may give: the binary is not found, it
\* exits non-zero, it exits zero with output that does not parse, or it exits
\* zero with JSON whose accessToken is t; stderr is what it wrote to stderr
CliStderrs == {"awesome error", "other error"}
CliRuns ==
    {[kind |-> "notfound"]}
        \cup {[kind |-> k, stderr |-> e] : k \in {"exit", "garbage"}, e \in CliStderrs}
        \cup {[kind |-> "ok", token |-> t] : t \in {"TOKEN_AZURE_CLI", "TOKEN"}}

\* Mutant: the helper's stderr is left out of the error.
azureCliStderrDropped(p, run) ==
    IF run.kind = "notfound"
    THEN [token |-> "", err |-> errTokenProviderNotAvailable, reqs |-> 0]
    ELSE IF run.kind = "exit"
    THEN [token |-> "", err |-> <<"failed to run", p.path>>, reqs |-> 0]
    ELSE IF run.kind = "garbage"
    THEN [token |-> "", err |-> <<"failed to decode token", p.path>>, reqs |-> 0]
    ELSE [token |-> run.token, err |-> Nil, reqs |-> 0]

\* azureCliTokenProvider.Token: the error of a helper that ran is
\* "failed to run <path>: <stderr>" (or the decoding failure with the
\* stderr), given as the pieces of the message
azureCliToken(p, run) ==
    IF run.kind = "notfound"
    THEN [token |-> "", err |-> errTokenProviderNotAvailable, reqs |-> 0]
    ELSE IF run.kind = "exit"
    THEN [token |-> "", err |-> <<"failed to run", p.path, run.stderr>>, reqs |-> 0]
    ELSE IF run.kind = "garbage"
    THEN [token |-> "",
          err |-> <<"failed to decode token", p.path, run.stderr>>, reqs |-> 0]
    ELSE [token |-> run.token, err |-> Nil, reqs |-> 0]

\* provider.Token() by dynamic dispatch on the provider's type
ProviderToken(p, resp) ==
    IF p.kind = "dummy" THEN dummyToken(p)
    ELSE IF p.kind = "cc" THEN clientCredentialToken(p, resp)
    ELSE IF p.kind = "cli" THEN azureCliToken(p, resp)
    ELSE vmIdentityToken(p, resp)

\* The request a provider hands to fetchToken
ProviderRequest(p) ==
    IF p.kind = "cc" THEN clientCredentialRequest(p) ELSE vmIdentityRequest

\* %T of a provider
TypeName(p) ==
    IF p.kind = "dummy" THEN "main.dummyTokenProvider"
    ELSE IF p.kind = "cc" THEN "*main.clientCredentialTokenProvider"
    ELSE IF p.kind = "cli" THEN "*main.azureCliTokenProvider"
    ELSE "*main.vmIdentityTokenProvider"

RECURSIVE ChainFrom(_, _, _, _, _)

\* Mutant: a failing provider is skipped like an unavailable one.
ChainSkipsFailures(ps, resps, i, calls, reqs, r) ==
    IF r.err # Nil
    THEN ChainFrom(ps, resps, i + 1, Append(calls, i), reqs + r.reqs)
    ELSE [token |-> r.token, err |-> Nil,
          calls |-> Append(calls, i), reqs |-> reqs + r.reqs]

\* Mutant: the loop does not stop at a success; a later success replaces it.
ChainLastWins(ps, resps, i, calls, reqs, r) ==
    LET rest == ChainFrom(ps, resps, i + 1, Append(calls, i), reqs + r.reqs) IN
    IF Is(r.err, errTokenProviderNotAvailable) THEN rest
    ELSE IF r.err # Nil
    THEN [token |-> "", err |-> Wrap(TypeName(ps[i]), r.err),
          calls |-> Append(calls, i), reqs |-> reqs + r.reqs]
    ELSE IF rest.err = Nil THEN rest
    ELSE [token |-> r.token, err |-> Nil,
          calls |-> rest.calls, reqs |-> rest.reqs]

\* The body of the loop of tokenProviderChain.Token for provider i, whose
\* Token() returned r
ChainStep(ps, resps, i, calls, reqs, r) ==
    IF Is(r.err, errTokenProviderNotAvailable)
    THEN ChainFrom(ps, resps, i + 1, Append(calls, i), reqs + r.reqs)
    ELSE IF r.err # Nil
    THEN [token |-> "", err |-> Wrap(TypeName(ps[i]), r.err),
          calls |-> Append(calls, i), reqs |-> reqs + r.reqs]
    ELSE [token |-> r.token, err |-> Nil,
          calls |-> Append(calls, i), reqs |-> reqs + r.reqs]

\* Mutant: an exhausted list is reported as a success with an empty token.
ChainExhaustedOk(ps, resps, i, calls, reqs) ==
    IF i > Len(ps)
    THEN [token |-> "", err |-> Nil, calls |-> calls, reqs |-> reqs]
    ELSE ChainStep(ps, resps, i, calls, reqs, ProviderToken(ps[i], resps[i]))

\* The loop of tokenProviderChain.Token from provider i on. resps[i] is the
\* answer the identity endpoint gives provider i if it asks; calls are the
\* providers invoked so far and reqs the identity requests issued so far.
ChainFrom(ps, resps, i, calls, reqs) ==
    IF i > Len(ps)
    THEN [token |-> "", err |-> errTokenProviderNotAvailable,
          calls |-> calls, reqs |-> reqs]
    ELSE ChainStep(ps, resps, i, calls, reqs, ProviderToken(ps[i], resps[i]))

\* tokenProviderChain.Token
ChainToken(ps, resps) == ChainFrom(ps, resps, 1, <<>>, 0)

-----------------------------------------------------------------------------
(* Secret URLs *)

\* The argument of a kv expression: raw is the text, wf whether url.Parse
\* accepts it, host the pieces of url.Hostname() and path the segments of
\* the URL's path.
SecretURLs ==
    { [raw |-> "https://example.vault.azure.net/secrets/pass", wf |-> TRUE,
       host |-> <<"example.", "vault.azure.net">>, path |-> <<"secrets", "pass">>],
      [raw |-> "https://kv2.vault.azure.net/secrets/pass/v1", wf |-> TRUE,
       host |-> <<"kv2.", "vault.azure.net">>, path |-> <<"secrets", "pass", "v1">>],
      [raw |-> "https://invalid.sensyn.net/secrets/pass", wf |-> TRUE,
       host |-> <<"invalid.", "sensyn.net">>, path |-> <<"secrets", "pass">>],
      [raw |-> "https://example.vault.azure.net/secrets/a/b/c", wf |-> TRUE,
       host |-> <<"example.", "vault.azure.net">>,
       path |-> <<"secrets", "a", "b", "c">>],
      [raw |-> "https://exa mple", wf |-> FALSE,
       host |-> <<>>, path |-> <<>>] }

\* strings.HasSuffix(s, suffix) on strings given as sequences of pieces
HasSuffix(s, suffix) ==
    /\ Len(s) >= Len(suffix)
    /\ SubSeq(s, Len(s) - Len(suffix) + 1, Len(s)) = suffix

\* the literal "vault.azure.net" of fetch
VaultDomain == <<"vault.azure.net">>

\* Mutant: the host is not tested at all.
HostNotChecked(u) == TRUE

\* strings.HasSuffix(url.Hostname(), "vault.azure.net")
HostAccepted(u) == HasSuffix(u.host, VaultDomain)

-----------------------------------------------------------------------------
(* The fetcher *)

Values == {"", "mysecretvalue1"}

\* f.client.Do for a vault request: a transport error, a non-200 status, a
\* 200 whose body does not decode, or a 200 whose body decodes to value v
\* (v = "" when the field is absent)
VaultResponses ==
    {[kind |-> "neterr"], [kind |-> "status"], [kind |-> "garbage"]}
        \cup {[kind |-> "ok", value |-> v] : v \in Values}

\* The answers the identity endpoints may give the providers ps, one for each
\* provider; a provider that sends no request gets NoResponse
RespSeqs(ps) ==
    { resps \in [1..Len(ps) -> IdResponses] :
        \A i \in 1..Len(ps) :
            ProviderToken(ps[i], resps[i]).reqs = 0 => resps[i] = NoResponse }

\* Mutant: the chain's error is handed on as it is, without the wrapping.
getTokenErrorUnwrapped(tok, c) ==
    IF c.err # Nil
    THEN [token |-> "", err |-> c.err,
          cache |-> tok, chainCalls |-> 1, chainOk |-> 0,
          calls |-> c.calls, idReqs |-> c.reqs]
    ELSE [token |-> c.token, err |-> Nil,
          cache |-> c.token, chainCalls |-> 1, chainOk |-> 1,
          calls |-> c.calls, idReqs |-> c.reqs]

\* getToken after f.tokenProvider.Token() returned c
getTokenFromChain(tok, c) ==
    IF c.err # Nil
    THEN [token |-> "", err |-> Wrap("failed to get token", c.err),
          cache |-> tok, chainCalls |-> 1, chainOk |-> 0,
          calls |-> c.calls, idReqs |-> c.reqs]
    ELSE [token |-> c.token, err |-> Nil,
          cache |-> c.token, chainCalls |-> 1, chainOk |-> 1,
          calls |-> c.calls, idReqs |-> c.reqs]

\* Mutant: the cached token is not looked at; the chain is asked every time.
getTokenNoCache(tok, ps, resps) == getTokenFromChain(tok, ChainToken(ps, resps))

\* fetcher.getToken with f.token = tok: what it returns, the new f.token
\* (cache), and what it did on the way
getToken(tok, ps, resps) ==
    IF tok # ""
    THEN [token |-> tok, err |-> Nil, cache |-> tok,
          chainCalls |-> 0, chainOk |-> 0, calls |-> <<>>, idReqs |-> 0]
    ELSE getTokenFromChain(tok, ChainToken(ps, resps))

\* client := &http.Client{Timeout: 5 * time.Second} of main, the client of
\* the fetcher: made by main, bound to no vault
MainClient == [madeBy |-> "main", vault |-> <<>>]

\* Mutant: fetch makes a client of its own for the host of each request.
ClientPerRequest(u) == [madeBy |-> "fetch", vault |-> u.host]

\* f.client of "res, err := f.client.Do(req)": the client the vault request
\* for u is sent through
VaultClient(u) == MainClient

\* What fetch returns when it fails before getToken
FetchEarlyError(tok, err) ==
    [value |-> "", err |-> err, cache |-> tok,
     chainCalls |-> 0, chainOk |-> 0, calls |-> <<>>, idReqs |-> 0,
     vaultReqs |-> 0, bearer |-> ""]

\* What fetch returns after getToken returned g: value and err, with what
\* getToken did, the vault requests sent and the bearer token they carried
FetchResult(g, value, err, vaultReqs) ==
    [value |-> value, err |-> err, cache |-> g.cache,
     chainCalls |-> g.chainCalls, chainOk |-> g.chainOk,
     calls |-> g.calls, idReqs |-> g.idReqs,
     vaultReqs |-> vaultReqs, bearer |-> IF vaultReqs = 0 THEN "" ELSE g.token]

\* Mutant: the status of the vault's answer is not looked at; the body of an
\* error answer decodes to an empty value.
fetchStatusIgnored(u, vresp, g) ==
    IF g.err # Nil THEN FetchResult(g, "", g.err, 0)
    ELSE IF vresp.kind = "neterr"
    THEN FetchResult(g, "", <<"transport error">>, 1)
    ELSE IF vresp.kind = "status"
    THEN FetchResult(g, "", Nil, 1)
    ELSE IF vresp.kind = "garbage"
    THEN FetchResult(g, "", <<"invalid character">>, 1)
    ELSE FetchResult(g, vresp.value, Nil, 1)

\* Mutant: a vault request that fails in transport is sent a second time.
fetchRetriesOnce(u, vresp, g) ==
    IF g.err # Nil THEN FetchResult(g, "", g.err, 0)
    ELSE IF vresp.kind = "neterr"
    THEN FetchResult(g, "", <<"transport error">>, 2)
    ELSE IF vresp.kind = "status"
    THEN FetchResult(g, "", <<"GET %s - %s", u.raw, "500 Internal Server Error">>, 1)
    ELSE IF vresp.kind = "garbage"
    THEN FetchResult(g, "", <<"invalid character">>, 1)
    ELSE FetchResult(g, vresp.value, Nil, 1)

\* fetch from "b, err := f.getToken()" on, getToken having returned g
fetchWithToken(u, vresp, g) ==
    IF g.err # Nil THEN FetchResult(g, "", g.err, 0)
    ELSE IF vresp.kind = "neterr"
    THEN FetchResult(g, "", <<"transport error">>, 1)
    ELSE IF vresp.kind = "status"
    THEN FetchResult(g, "", <<"GET %s - %s", u.raw, "500 Internal Server Error">>, 1)
    ELSE IF vresp.kind = "garbage"
    THEN FetchResult(g, "", <<"invalid character">>, 1)
    ELSE FetchResult(g, vresp.value, Nil, 1)

\* fetcher.fetch(rawurl) with f.token = tok; resps and vresp are the answers
\* the identity endpoints and the vault give if asked
fetch(tok, ps, u, resps, vresp) ==
    IF ~u.wf THEN FetchEarlyError(tok, <<"parse", u.raw>>)
    ELSE IF ~HostAccepted(u) THEN FetchEarlyError(tok, <<"Invalid url - %s", u.raw>>)
    ELSE fetchWithToken(u, vresp, getToken(tok, ps, resps))

-----------------------------------------------------------------------------
(* Template lines *)

\* The nodes text/template's parser makes of a line: text that is not all
\* white space, text that is all white space, a {{ kv "<url>" }} action, and
\* "bad" for a piece the parser rejects (an unclosed action, an undefined
\* function).
Text(s) == [k |-> "text", s |-> s]
Space == [k |-> "space", s |-> " "]
Kv(u) == [k |-> "kv", url |-> u]
Bad == [k |-> "bad"]

\* The input lines of the model, each as the pieces it is made of. The empty
\* sequence is the empty line.
Lines ==
    { <<>>, <<Text("USER=foo@example.com")>>, <<Space>>,
      <<Text("PASSWORD="), Bad>> }
        \cup { <<Text("PASSWORD="), Kv(u)>> : u \in SecretURLs }

\* A template's Tree field: has is FALSE for the nil tree of template.New
NoTree == [has |-> FALSE, nodes |-> <<>>]
TreeOf(nodes) == [has |-> TRUE, nodes |-> nodes]

\* parse.IsEmptyTree: nothing but white-space text
IsEmptyTree(nodes) == \A i \in 1..Len(nodes) : nodes[i].k = "space"

\* t.Parse(line) on the shared template whose tree is old: the error, and the
\* tree the template holds afterwards. A template that already has a tree keeps
\* it when the new tree is empty (text/template's associate).
Parse(old, l) ==
    IF \E i \in 1..Len(l) : l[i].k = "bad"
    THEN [err |-> <<"template: .env:1: parse error">>, tree |-> old]
    ELSE IF old.has /\ IsEmptyTree(l)
    THEN [err |-> Nil, tree |-> old]
    ELSE [err |-> Nil, tree |-> TreeOf(l)]

-----------------------------------------------------------------------------
(* filter *)

\* Mutant: an empty line is handed to the template like any other.
LineNeverEmpty(l) == FALSE

\* line != "" negated
LineIsEmpty(l) == l = <<>>

\* Mutant: an error of Parse or Execute is dropped and the loop goes on.
ErrorIgnored(err) == "run"

\* template.Must and "if err != nil { panic(err) }"
AfterError(err) == IF err # Nil THEN "panic" ELSE "run"

NoFetch == [called |-> FALSE]
NoAnswer == [kind |-> "none"]

InitObs ==
    [fetchCalls |-> 0, chainCalls |-> 0, chainOk |-> 0, idReqs |-> 0,
     vaultReqs |-> 0,
     readErr |-> FALSE,    \* the reader failed (or a line was too long)
     unread |-> FALSE,     \* input was left unread when the loop ended
     writeErr |-> FALSE,   \* some write to out failed
     wfail |-> FALSE,      \* the last write to out failed
     errLine |-> 0,        \* the line at which Parse or Execute failed, or 0
     before |-> <<>>,      \* out when the current line was scanned
     lineVals |-> <<>>,    \* what fetch returned for the current line, in order
     lineUrls |-> <<>>,    \* the URLs fetch was called with for the current line
     clients |-> {}]       \* the vault hosts asked, each with the client used

\* The chain of main: client credentials from the environment, then the VM
\* identity
MainProviders(id, secret, tenant) ==
    <<[kind |-> "cc", clientId |-> id, clientSecret |-> secret, tenant |-> tenant],
      [kind |-> "vm"]>>

\* VAULTENV_AZURE_PASSWORD of the runs of the model
MainSecret == "7a724b98"

\* The fetchers filter is run with: the chain of main for each client id and
\* tenant (one tenant when the client id is empty, the tenant not being read
\* then), and a chain of an unconfigured client-credential provider alone
MainConfigs ==
    {c \in [id : ClientIds, tenant : Tenants] : c.id = "" => c.tenant.wf}
Fetchers ==
    {MainProviders(c.id, MainSecret, c.tenant) : c \in MainConfigs}
        \cup {<<MainProviders(c.id, MainSecret, c.tenant)[1]>> :
                 c \in {x \in MainConfigs : x.id = ""}}

NoCall == [called |-> FALSE]

Init ==
    /\ providers \in Fetchers
    /\ chainRes = [called |-> FALSE]
    /\ provRes = NoCall
    /\ status = "run"
    /\ pc = "scan"
    /\ nread = 0
    /\ line = <<>>
    /\ tree = NoTree
    /\ cur = <<>>
    /\ out = <<>>
    /\ token = ""
    /\ obs = InitObs
    /\ lastFetch = NoFetch

\* scanner.Scan() returns true with no error: a line is read, and unless it
\* is empty it is parsed into the shared template, whose Execute starts
ScanLine(l) ==
    /\ status = "run" /\ pc = "scan" /\ nread < MaxLines
    /\ nread' = nread + 1
    /\ line' = l
    /\ lastFetch' = NoFetch
    /\ UNCHANGED <<providers, chainRes, provRes, out, token>>
    /\ IF LineIsEmpty(l)
       THEN /\ pc' = "nl"
            /\ obs' = [obs EXCEPT !.before = out, !.lineVals = <<>>, !.lineUrls = <<>>]
            /\ UNCHANGED <<status, tree, cur>>
       ELSE LET p == Parse(tree, l) IN
            /\ tree' = p.tree
            /\ status' = AfterError(p.err)
            /\ obs' = [obs EXCEPT !.before = out, !.lineVals = <<>>, !.lineUrls = <<>>,
                                  !.errLine = IF p.err # Nil THEN nread + 1 ELSE @]
            /\ cur' = IF p.err # Nil THEN <<>> ELSE p.tree.nodes
            /\ pc' = IF p.err = Nil /\ p.tree.nodes # <<>> THEN "exec" ELSE "nl"

\* scanner.Scan() returns true although the reader failed (the rest of the
\* buffer is the last token): scanner.Err() is not nil and filter panics
ScanLineWithError ==
    /\ status = "run" /\ pc = "scan" /\ nread < MaxLines
    /\ status' = "panic"
    /\ nread' = nread + 1
    /\ obs' = [obs EXCEPT !.readErr = TRUE, !.before = out, !.lineVals = <<>>, !.lineUrls = <<>>]
    /\ UNCHANGED <<providers, chainRes, provRes, pc, line, tree, cur, out, token, lastFetch>>

\* scanner.Scan() returns false: at the end of the input (failed = FALSE), or
\* because the reader failed with nothing buffered or a line exceeded the
\* scanner's buffer (failed = TRUE, unread says whether input remains). The
\* loop ends and filter returns; scanner.Err() is not looked at.
ScanEnds(failed, unread) ==
    /\ status = "run" /\ pc = "scan"
    /\ ~failed => ~unread
    /\ status' = "done"
    /\ obs' = [obs EXCEPT !.readErr = failed, !.unread = unread]
    /\ UNCHANGED <<providers, chainRes, provRes, pc, nread, line, tree, cur, out, token,
                   lastFetch>>

\* Execute walks a text node: it writes the text to out; wok says whether
\* the writer accepts it
ExecText(wok) ==
    /\ status = "run" /\ pc = "exec" /\ cur # <<>>
    /\ Head(cur).k \in {"text", "space"}
    /\ LET err == IF wok THEN Nil ELSE <<"write error">> IN
       /\ out' = IF wok THEN Append(out, Head(cur).s) ELSE out
       /\ status' = AfterError(err)
       /\ obs' = [obs EXCEPT !.writeErr = @ \/ ~wok, !.wfail = ~wok,
                             !.errLine = IF err # Nil THEN nread ELSE @]
       /\ cur' = Tail(cur)
       /\ pc' = IF Tail(cur) = <<>> THEN "nl" ELSE "exec"
    /\ UNCHANGED <<providers, chainRes, provRes, nread, line, tree, token, lastFetch>>

\* The error Execute ends with after fetch returned r and, when r has no
\* error, the value was handed to the writer
KvError(r, wok) ==
    IF r.err # Nil THEN r.err ELSE IF wok THEN Nil ELSE <<"write error">>

\* The rest of the kv node once fetch(u) has returned r, the vault having
\* answered vresp if it was asked
ExecKvReturned(u, r, vresp, wok) ==
    /\ token' = r.cache
    /\ lastFetch' = [called |-> TRUE, url |-> u, tokenBefore |-> token, res |-> r,
                     answer |-> IF r.vaultReqs = 0 THEN NoAnswer ELSE vresp]
    /\ out' = IF r.err = Nil /\ wok THEN Append(out, r.value) ELSE out
    /\ status' = AfterError(KvError(r, wok))
    /\ obs' = [obs EXCEPT
                 !.fetchCalls = @ + 1,
                 !.chainCalls = @ + r.chainCalls,
                 !.chainOk = @ + r.chainOk,
                 !.idReqs = @ + r.idReqs,
                 !.vaultReqs = @ + r.vaultReqs,
                 !.writeErr = @ \/ (r.err = Nil /\ ~wok),
                 !.wfail = IF r.err = Nil THEN ~wok ELSE @,
                 !.lineVals = IF r.err = Nil THEN Append(@, r.value) ELSE @,
                 !.lineUrls = Append(@, u),
                 !.clients = IF r.vaultReqs = 0 THEN @
                            ELSE @ \cup {[vault |-> u.host, client |-> VaultClient(u)]},
                 !.errLine = IF KvError(r, wok) # Nil THEN nread ELSE @]

\* Execute walks a {{ kv "<url>" }} node: it calls f.fetch and, when fetch
\* returns no error, writes the value to out
ExecKv(resps, vresp, wok) ==
    /\ status = "run" /\ pc = "exec" /\ cur # <<>>
    /\ Head(cur).k = "kv"
    /\ ExecKvReturned(Head(cur).url,
                      fetch(token, providers, Head(cur).url, resps, vresp),
                      vresp, wok)
    /\ cur' = Tail(cur)
    /\ pc' = IF Tail(cur) = <<>> THEN "nl" ELSE "exec"
    /\ UNCHANGED <<providers, chainRes, provRes, nread, line, tree>>

\* out.Write([]byte{'\n'}): the result of the write is dropped
WriteNewline(wok) ==
    /\ status = "run" /\ pc = "nl"
    /\ out' = IF wok THEN Append(out, "\n") ELSE out
    /\ obs' = [obs EXCEPT !.writeErr = @ \/ ~wok, !.wfail = ~wok]
    /\ pc' = "scan"
    /\ UNCHANGED <<providers, chainRes, provRes, status, nread, line, tree, cur, token,
                   lastFetch>>

Next ==
    \/ \E l \in Lines : ScanLine(l)
    \/ ScanLineWithError
    \/ \E failed, unread \in BOOLEAN : ScanEnds(failed, unread)
    \/ \E wok \in BOOLEAN : ExecText(wok)
    \/ \E resps \in RespSeqs(providers), vresp \in VaultResponses,
          wok \in BOOLEAN : ExecKv(resps, vresp, wok)
    \/ \E wok \in BOOLEAN : WriteNewline(wok)

Spec == Init /\ [][Next]_vars

-----------------------------------------------------------------------------
(* The chain on its own: every list of dummy providers, one call of Token *)

RECURSIVE SeqsUpTo(_, _)
SeqsUpTo(S, n) ==
    IF n = 0 THEN {<<>>}
    ELSE LET shorter == SeqsUpTo(S, n - 1) IN
         shorter \cup {Append(q, x) : q \in {r \in shorter : Len(r) = n - 1}, x \in S}

InitChain ==
    /\ providers \in SeqsUpTo(DummyProviders, MaxProviders)
    /\ chainRes = [called |-> FALSE]
    /\ provRes = NoCall
    /\ status = "done"
    /\ pc = "scan"
    /\ nread = 0
    /\ line = <<>>
    /\ tree = NoTree
    /\ cur = <<>>
    /\ out = <<>>
    /\ token = ""
    /\ obs = InitObs
    /\ lastFetch = NoFetch

\* provider := &tokenProviderChain{tt.providers}; token, err := provider.Token()
CallChain ==
    /\ ~chainRes.called
    /\ chainRes' = [called |-> TRUE,
                    res |-> ChainToken(providers,
                                       [i \in 1..Len(providers) |-> NoResponse])]
    /\ UNCHANGED <<providers, provRes, status, pc, nread, line, tree, cur, out,
                   token, obs, lastFetch>>

NextChain == CallChain

SpecChain == InitChain /\ [][NextChain]_vars

-----------------------------------------------------------------------------
(* One provider on its own: every provider with every answer, one call of Token *)

ProviderCases ==
    {[p |-> [kind |-> "cc", clientId |-> id, clientSecret |-> sec, tenant |-> t],
      resp |-> r] :
        id \in ClientIds, sec \in ClientSecrets, t \in Tenants, r \in IdResponses}
    \cup {[p |-> [kind |-> "vm"], resp |-> r] : r \in IdResponses}
    \cup {[p |-> [kind |-> "cli", path |-> "az"], resp |-> r] : r \in CliRuns}
    \cup {[p |-> d, resp |-> NoResponse] : d \in DummyProviders}

InitProviders ==
    /\ provRes \in {[called |-> FALSE, p |-> c.p, resp |-> c.resp] : c \in ProviderCases}
    /\ providers = <<>>
    /\ chainRes = [called |-> FALSE]
    /\ status = "done"
    /\ pc = "scan"
    /\ nread = 0
    /\ line = <<>>
    /\ tree = NoTree
    /\ cur = <<>>
    /\ out = <<>>
    /\ token = ""
    /\ obs = InitObs
    /\ lastFetch = NoFetch

\* Token() of provider p has returned r: sent are the requests it handed to
\* client.Do
ProviderReturned(p, resp, r) ==
    provRes' = [called |-> TRUE, p |-> p, resp |-> resp, res |-> r,
                sent |-> IF r.reqs = 0 THEN <<>> ELSE <<ProviderRequest(p)>>]

\* token, err := provider.Token()
CallProvider ==
    /\ ~provRes.called
    /\ ProviderReturned(provRes.p, provRes.resp,
                        ProviderToken(provRes.p, provRes.resp))
    /\ UNCHANGED <<providers, chainRes, status, pc, nread, line, tree, cur, out,
                   token, obs, lastFetch>>

NextProviders == CallProvider

SpecProviders == InitProviders /\ [][NextProviders]_vars

-----------------------------------------------------------------------------
(* Claims about tokenProviderChain.Token, checked under SpecChain *)

NotAvailable(err) == Is(err, errTokenProviderNotAvailable)
Failed(err) == err # Nil /\ ~NotAvailable(err)
UpTo(n) == [j \in 1..n |-> j]
Successes == {i \in 1..Len(providers) : providers[i].err = Nil}
Decisive == {i \in 1..Len(providers) : ~NotAvailable(providers[i].err)}
Least(S) == CHOOSE i \in S : \A j \in S : i <= j

\* C1: when Token returns a token, it is the token of the first provider in
\* list order that returned success, and exactly the providers up to that one
\* were invoked (none after it).
C1_FirstSuccessWins ==
    (chainRes.called /\ chainRes.res.err = Nil) =>
        /\ Successes # {}
        /\ chainRes.res.token = providers[Least(Successes)].token
        /\ chainRes.res.calls = UpTo(Least(Successes))

C1_Witness ==
    /\ chainRes.called /\ chainRes.res.err = Nil
    /\ Len(providers) = 2
    /\ providers[1].err = Nil /\ providers[2].err = Nil
    /\ providers[1].token = "token1" /\ providers[2].token = "token2"

\* C2: if the first provider that does not return NotAvailable returns a
\* Failed error, Token returns that error (errors.Is finds the provider's
\* original error in it) with an empty token and invokes no later provider.
C2_FailureStopsChain ==
    chainRes.called =>
        \A i \in Decisive :
            (i = Least(Decisive) /\ Failed(providers[i].err)) =>
                /\ chainRes.res.token = ""
                /\ Is(chainRes.res.err, providers[i].err)
                /\ chainRes.res.calls = UpTo(i)

C2_Witness ==
    /\ chainRes.called
    /\ Len(providers) = 2
    /\ providers[1].err = <<"error1">>
    /\ providers[2].err = Nil /\ providers[2].token = "token2"
    /\ chainRes.res.token = ""

\* C3: Token returns NotAvailable exactly when every provider of the list
\* returned NotAvailable; the empty list gives NotAvailable as an error value,
\* and [P_notAvailable, P_success] gives P_success's token.
C3_NotAvailableIffAllNotAvailable ==
    chainRes.called =>
        /\ NotAvailable(chainRes.res.err) <=>
               \A i \in 1..Len(providers) : NotAvailable(providers[i].err)
        /\ providers = <<>> =>
               chainRes.res = [token |-> "", err |-> errTokenProviderNotAvailable,
                               calls |-> <<>>, reqs |-> 0]
        /\ (/\ Len(providers) = 2
            /\ NotAvailable(providers[1].err)
            /\ providers[2].err = Nil) =>
               /\ chainRes.res.err = Nil
               /\ chainRes.res.token = providers[2].token

C3_Witness ==
    /\ chainRes.called
    /\ Len(providers) = 2
    /\ \A i \in 1..2 : NotAvailable(providers[i].err)
    /\ chainRes.res.err = errTokenProviderNotAvailable
    /\ chainRes.res.calls = <<1, 2>>

-----------------------------------------------------------------------------
(* Claims about fetch and filter, checked under Spec *)

\* C4: over any sequence of lookups of one run the credential chain returns a
\* token successfully at most once, whatever token it returned.
C4_ChainSucceedsAtMostOnce == obs.chainOk <= 1

\* The host lies in the vault domain: its last piece is the domain itself
InVaultDomain(u) == u.host # <<>> /\ u.host[Len(u.host)] = "vault.azure.net"

LineOut == SubSeq(out, Len(obs.before) + 1, Len(out))

\* The line l with each lookup expression replaced by the next of vals
RECURSIVE Subst(_, _)
Subst(l, vals) ==
    IF l = <<>> THEN <<>>
    ELSE IF Head(l).k = "kv"
    THEN IF vals = <<>> THEN <<>> ELSE <<Head(vals)>> \o Subst(Tail(l), Tail(vals))
    ELSE <<Head(l).s>> \o Subst(Tail(l), vals)

NewlineCount == Cardinality({i \in 1..Len(out) : out[i] = "\n"})

\* No read, write, Parse or Execute error has arisen so far
NoErrorSoFar == ~obs.readErr /\ ~obs.writeErr /\ obs.errLine = 0

\* C6: when filter completes without error the output has one line for each
\* input line, each ended by a newline, and each output line is the input line
\* with its lookup expressions replaced by the values fetch returned. (Stated
\* for the runs in which no error arose at all: what is written for a line,
\* once its Execute has returned, is the line with its lookups replaced, and
\* at the end there are as many newlines as lines, the last piece being one.)
C6_OutputMirrorsInput ==
    /\ (status = "run" /\ pc = "nl" /\ NoErrorSoFar) =>
           LineOut = Subst(line, obs.lineVals)
    /\ (status = "done" /\ NoErrorSoFar) =>
           /\ NewlineCount = nread
           /\ out # <<>> => out[Len(out)] = "\n"

\* C7: once Parse or Execute has failed at line k, the run has ended abnormally
\* at that line: no later line is read, what was written for the lines before
\* k is still the beginning of the output, and line k got no newline.
C7_AbortKeepsEarlierOutput ==
    obs.errLine # 0 =>
        /\ status = "panic"
        /\ nread = obs.errLine
        /\ SubSeq(out, 1, Len(obs.before)) = obs.before
        /\ \A i \in Len(obs.before) + 1 .. Len(out) : out[i] # "\n"
        /\ NewlineCount <= obs.errLine - 1

C7_Witness ==
    /\ obs.errLine = 2 /\ status = "panic"
    /\ lastFetch.called /\ lastFetch.res.err # Nil
    /\ out = <<"USER=foo@example.com", "\n", "PASSWORD=">>

\* C8: filter returns normally only if nothing went wrong: no read error, no
\* Parse or Execute error, no write error.
C8_NoErrorIsSwallowed ==
    status = "done" => (~obs.readErr /\ ~obs.writeErr /\ obs.errLine = 0)

\* The path is /secrets/<name> or /secrets/<name>/<version>
SecretPath(u) ==
    /\ u.wf
    /\ Len(u.path) \in {2, 3}
    /\ u.path[1] = "secrets"
    /\ \A i \in 2..Len(u.path) : u.path[i] # ""

\* C9: a fetch of a URL whose path is not /secrets/<name>[/<version>] returns
\* an error and sends no vault request.
C9_PathShapeIsChecked ==
    (lastFetch.called /\ ~SecretPath(lastFetch.url)) =>
        (lastFetch.res.err # Nil /\ lastFetch.res.vaultReqs = 0)

SameCalls(a, b) ==
    /\ a.fetchCalls = b.fetchCalls /\ a.chainCalls = b.chainCalls
    /\ a.idReqs = b.idReqs /\ a.vaultReqs = b.vaultReqs

\* C10: every step taken for an empty input line leaves the cached token, the
\* counts of fetch calls, chain calls and requests unchanged; the line goes
\* from the scanner straight to the newline, and the only thing written for
\* it is one newline (nothing if the writer refuses it).
C10_BlankLineStep ==
    (status = "run" /\ line' = <<>> /\ nread' > 0) =>
        /\ token' = token
        /\ SameCalls(obs', obs)
        /\ ~lastFetch'.called
        /\ pc = "scan" => (out' = out /\ (status' = "run" => pc' = "nl"))
        /\ pc = "nl" => /\ pc' = "scan"
                        /\ out' = IF obs'.wfail THEN out ELSE Append(out, "\n")
        /\ pc \in {"scan", "nl"}

C10_BlankLine == [][C10_BlankLineStep]_vars

C10_Witness ==
    /\ line = <<>> /\ nread = 2 /\ pc = "scan" /\ status = "run"
    /\ token = "TOKEN" /\ obs.fetchCalls = 1
    /\ out = <<"PASSWORD=", "mysecretvalue1", "\n", "\n">>

-----------------------------------------------------------------------------
(* Claims about the fetcher's client and token, checked under Spec *)

-----------------------------------------------------------------------------
(* Claims about the single providers, checked under SpecProviders *)

ClientCredentialCalled == provRes.called /\ provRes.p.kind = "cc"

\* C12 as stated: clientCredentialTokenProvider.Token returns NotAvailable,
\* without any request, exactly when the client id is empty; with a client id
\* it issues the token request and returns the token of the response or a
\* Failed error, never NotAvailable.
C12_RequestIffClientId ==
    ClientCredentialCalled =>
        /\ NotAvailable(provRes.res.err) <=> provRes.p.clientId = ""
        /\ provRes.p.clientId = "" => provRes.sent = <<>>
        /\ provRes.p.clientId # "" =>
               /\ Len(provRes.sent) = 1
               /\ provRes.res.err = Nil =>
                      (provRes.resp.kind = "ok" /\ provRes.res.token = provRes.resp.token)

\* C12 (amended): Token returns NotAvailable, without any request, exactly
\* when the client id is empty. With a client id it never returns
\* NotAvailable: when the token URL cannot be built from the tenant it
\* returns a Failed error without any request, and otherwise it issues exactly
\* one token request and returns the token of the response or a Failed error.
C12_NotAvailableIffNoClientId ==
    ClientCredentialCalled =>
        /\ NotAvailable(provRes.res.err) <=> provRes.p.clientId = ""
        /\ provRes.p.clientId = "" => (provRes.sent = <<>> /\ provRes.res.token = "")
        /\ (provRes.p.clientId # "" /\ ~provRes.p.tenant.wf) =>
               (provRes.sent = <<>> /\ Failed(provRes.res.err) /\ provRes.res.token = "")
        /\ (provRes.p.clientId # "" /\ provRes.p.tenant.wf) =>
               /\ Len(provRes.sent) = 1
               /\ provRes.res.err = Nil \/ Failed(provRes.res.err)
               /\ provRes.res.err = Nil <=> provRes.resp.kind = "ok"
               /\ provRes.res.err = Nil => provRes.res.token = provRes.resp.token
               /\ provRes.res.err # Nil => provRes.res.token = ""

C12_Witness ==
    /\ ClientCredentialCalled
    /\ provRes.p.clientId = "b3a0fa1e" /\ ~provRes.p.tenant.wf
    /\ provRes.resp.kind = "ok"
    /\ Failed(provRes.res.err) /\ provRes.sent = <<>>

Contains(err, text) == \E i \in 1..Len(err) : err[i] = text

\* A chain of the provider under test followed by a provider that succeeds
ThenDummy == [kind |-> "dummy", token |-> "token1", err |-> Nil]
ChainPast(p, resp) == ChainToken(<<p, ThenDummy>>, <<resp, NoResponse>>)

\* C13: azureCliTokenProvider.Token returns NotAvailable when the helper cannot
\* be found or executed (a chain then goes on to the next provider); a Failed
\* error whose message contains the helper's stderr text when the helper
\* exits non-zero or prints output that does not parse (a chain stops there);
\* and the access token of the helper's JSON output when it succeeds.
C13_CliOutcomes ==
    (provRes.called /\ provRes.p.kind = "cli") =>
        /\ provRes.sent = <<>>
        /\ provRes.resp.kind = "notfound" =>
               /\ NotAvailable(provRes.res.err)
               /\ ChainPast(provRes.p, provRes.resp).calls = <<1, 2>>
               /\ ChainPast(provRes.p, provRes.resp).token = "token1"
        /\ provRes.resp.kind \in {"exit", "garbage"} =>
               /\ Failed(provRes.res.err)
               /\ Contains(provRes.res.err, provRes.resp.stderr)
               /\ provRes.res.token = ""
               /\ ChainPast(provRes.p, provRes.resp).calls = <<1>>
        /\ provRes.resp.kind = "ok" =>
               (provRes.res.err = Nil /\ provRes.res.token = provRes.resp.token)

C13_Witness ==
    /\ provRes.called /\ provRes.p.kind = "cli"
    /\ provRes.resp = [kind |-> "exit", stderr |-> "awesome error"]
    /\ provRes.res.err = <<"failed to run", "az", "awesome error">>

\* C19: with a client id, the token request of the client-credential provider
\* (when its URL can be built, so that the request is sent) is one HTTP POST
\* to the identity endpoint of the tenant, with the form body
\* grant_type=client_credentials, client_id, client_secret and the vault
\* resource.
C19_TokenRequestIsFormPost ==
    (ClientCredentialCalled /\ provRes.p.clientId # "" /\ provRes.p.tenant.wf) =>
        /\ Len(provRes.sent) = 1
        /\ provRes.sent[1].method = "POST"
        /\ provRes.sent[1].url =
               <<"https://login.microsoftonline.com/", provRes.p.tenant.raw,
                 "/oauth2/token">>
        /\ provRes.sent[1].header =
               <<"Content-Type", "application/x-www-form-urlencoded">>
        /\ provRes.sent[1].body =
               [grant_type |-> "client_credentials",
                client_id |-> provRes.p.clientId,
                client_secret |-> provRes.p.clientSecret,
                resource |-> "https://vault.azure.net"]

-----------------------------------------------------------------------------
(* Claims about getToken and fetch, checked under Spec *)

\* The most recent fetch called the chain and the chain failed
ChainFailed ==
    lastFetch.called /\ lastFetch.res.chainCalls = 1 /\ lastFetch.res.chainOk = 0

\* C14: when the chain fails inside getToken (NotAvailable or Failed), the
\* error comes back wrapped as "failed to get token: ..." (the chain's error
\* is still found in it), no vault request is sent, the cached token is what
\* it was, namely empty, and a further getToken would call the chain again
\* whatever the identity endpoints answer.
C14_ChainFailureCachesNothing ==
    ChainFailed =>
        /\ Len(lastFetch.res.err) >= 2
        /\ Head(lastFetch.res.err) = "failed to get token"
        /\ NotAvailable(Tail(lastFetch.res.err)) \/ Failed(Tail(lastFetch.res.err))
        /\ NotAvailable(lastFetch.res.err) <=> NotAvailable(Tail(lastFetch.res.err))
        /\ lastFetch.res.value = "" /\ lastFetch.res.vaultReqs = 0
        /\ lastFetch.tokenBefore = "" /\ token = "" /\ lastFetch.res.cache = ""
        /\ \A resps \in RespSeqs(providers) :
               getToken(token, providers, resps).chainCalls = 1

C14_Witness ==
    /\ ChainFailed
    /\ Len(providers) = 1
    /\ lastFetch.res.err = <<"failed to get token", "token provider not available">>
    /\ obs.fetchCalls = 1 /\ obs.chainCalls = 1 /\ token = "" /\ status = "panic"

\* C15: once the cached token is set (f.token is not empty, which is what
\* getToken takes for cached) no step changes or clears it, whatever the later
\* lookups give; a fetch made from then on does not call the chain, and the
\* vault request it sends carries exactly that token as its bearer.
C15_TokenWriteOnceStep ==
    token # "" =>
        /\ token' = token
        /\ obs'.chainCalls = obs.chainCalls /\ obs'.idReqs = obs.idReqs
        /\ obs'.fetchCalls # obs.fetchCalls =>
               /\ lastFetch'.tokenBefore = token
               /\ lastFetch'.res.vaultReqs # 0 => lastFetch'.res.bearer = token

C15_TokenWriteOnce == [][C15_TokenWriteOnceStep]_vars

C15_Witness ==
    /\ token = "TOKEN" /\ obs.fetchCalls = 2 /\ obs.vaultReqs = 2
    /\ lastFetch.called /\ lastFetch.tokenBefore = "TOKEN"
    /\ lastFetch.url.host = <<"kv2.", "vault.azure.net">>
    /\ lastFetch.answer.kind = "status" /\ lastFetch.res.bearer = "TOKEN"
    /\ status = "panic"

-----------------------------------------------------------------------------
(* Claims about filter's lines, checked under Spec *)

\* The URLs of the lookup expressions of line l, in order
LookupsOf(l) ==
    LET ks == SelectSeq(l, LAMBDA n : n.k = "kv") IN
    [i \in 1..Len(ks) |-> ks[i].url]

IsPrefix(a, b) == Len(a) <= Len(b) /\ SubSeq(b, 1, Len(a)) = a

\* C16: nothing of the template carries from one line to the next: the
\* lookups made while line k is processed are lookup expressions of line k,
\* in order, all of them once the line's Execute has returned; and what is
\* then written for the line is the line itself with its lookups replaced by
\* their results. This for every non-empty line, a line of white space only
\* after a line with text or a lookup included.
C16_LineStandsAlone ==
    (nread > 0 /\ status # "done") =>
        /\ IsPrefix(obs.lineUrls, LookupsOf(line))
        /\ (status = "run" /\ pc = "nl") =>
               /\ obs.lineUrls = LookupsOf(line)
               /\ LineOut = Subst(line, obs.lineVals)

\* C17: fetch returns no error only when the vault answered 200 with a body
\* that decoded, and then returns the body's value; a transport error, a
\* non-200 status and a body that does not decode each give an error and the
\* empty value, the error of a non-200 status naming the URL and the status
\* text; and whatever the vault answered, the token the request carried is
\* still the cached token afterwards.
C17_FetchFollowsVaultAnswer ==
    lastFetch.called =>
        /\ lastFetch.res.err = Nil <=> lastFetch.answer.kind = "ok"
        /\ lastFetch.res.err = Nil =>
               /\ lastFetch.res.vaultReqs = 1
               /\ lastFetch.res.value = lastFetch.answer.value
        /\ lastFetch.res.err # Nil => lastFetch.res.value = ""
        /\ lastFetch.answer.kind = "status" =>
               /\ Contains(lastFetch.res.err, lastFetch.url.raw)
               /\ Contains(lastFetch.res.err, "500 Internal Server Error")
        /\ lastFetch.answer.kind # "none" =>
               /\ token = lastFetch.res.bearer
               /\ lastFetch.tokenBefore # "" => token = lastFetch.tokenBefore

C17_Witness ==
    /\ lastFetch.called /\ lastFetch.answer.kind = "status"
    /\ lastFetch.tokenBefore = "" /\ token = "TOKEN"
    /\ lastFetch.res.err = <<"GET %s - %s",
                             "https://kv2.vault.azure.net/secrets/pass/v1",
                             "500 Internal Server Error">>
    /\ lastFetch.res.value = "" /\ status = "panic"

-----------------------------------------------------------------------------
(* Claims about the chain of main, checked under Spec *)

\* The most recent fetch called the chain of main
MainChainCalled ==
    lastFetch.called /\ lastFetch.res.chainCalls = 1 /\ Len(providers) = 2

IsMember(x, q) == \E i \in 1..Len(q) : q[i] = x

\* C18: vmIdentityTokenProvider.Token never returns NotAvailable: whatever the
\* identity endpoint answers, it returns a token or a Failed error. So the
\* chain of main never returns NotAvailable, and it calls the VM identity
\* provider exactly when the client id is empty: a failure of the client
\* credentials with a client id is not followed by the VM identity provider.
C18_MainChainNeverNotAvailable ==
    /\ \A resp \in IdResponses :
           /\ ~NotAvailable(vmIdentityToken([kind |-> "vm"], resp).err)
           /\ vmIdentityToken([kind |-> "vm"], resp).err = Nil
                  <=> resp.kind = "ok"
    /\ MainChainCalled =>
           /\ ~NotAvailable(lastFetch.res.err)
           /\ lastFetch.res.chainOk = 0 => Failed(lastFetch.res.err)
           /\ Head(lastFetch.res.calls) = 1
           /\ IsMember(2, lastFetch.res.calls) <=> providers[1].clientId = ""

C18_Witness ==
    /\ MainChainCalled
    /\ providers[1].clientId = "b3a0fa1e" /\ providers[1].tenant.wf
    /\ lastFetch.res.chainOk = 0
    /\ lastFetch.res.calls = <<1>> /\ lastFetch.res.idReqs = 1
    /\ lastFetch.res.err = <<"failed to get token",
                             "*main.clientCredentialTokenProvider",
                             "transport error">>

-----------------------------------------------------------------------------
(* Claims about retries, checked under Spec *)

NoDuplicates(q) == \A i, j \in 1..Len(q) : q[i] = q[j] => i = j

\* A request, a provider, the chain, a lookup, Parse or Execute has failed,
\* or the reader has
SomethingFailed ==
    \/ lastFetch.called /\ lastFetch.res.err # Nil
    \/ obs.errLine # 0
    \/ obs.readErr

\* C20: nothing is tried twice. A fetch sends at most one vault request and
\* calls the chain at most once; a call of the chain calls each provider at
\* most once, and the providers called send at most one identity request
\* each; and once a request, a provider, the chain or a lookup has failed, no
\* step of the run calls fetch or the chain or sends a request again.
C20_NoRetryStep ==
    /\ obs'.fetchCalls # obs.fetchCalls =>
           /\ obs'.fetchCalls = obs.fetchCalls + 1
           /\ lastFetch'.res.vaultReqs <= 1
           /\ lastFetch'.res.chainCalls <= 1
           /\ NoDuplicates(lastFetch'.res.calls)
           /\ lastFetch'.res.idReqs <= Len(lastFetch'.res.calls)
           /\ obs'.vaultReqs = obs.vaultReqs + lastFetch'.res.vaultReqs
           /\ obs'.chainCalls = obs.chainCalls + lastFetch'.res.chainCalls
           /\ obs'.idReqs = obs.idReqs + lastFetch'.res.idReqs
    /\ obs'.fetchCalls = obs.fetchCalls => SameCalls(obs', obs)
    /\ SomethingFailed => SameCalls(obs', obs)

====
